---- MODULE Spec2Model ----
(***************************************************************************)
(* A model of app_v1.2.0.py: the PDF claim-report pipeline.                *)
(*   PDFTextExtractor  -> text of a document or "Failed to extract text"   *)
(*   UnifiedPDFProcessor: classification, the BPH and OVH field extractors *)
(*                        and the batch loop process_pdfs                  *)
(*   DataMapper        -> the 25-column target table                       *)
(* Python strings are TLA+ strings; characters are strings of length one.  *)
(***************************************************************************)
EXTENDS Integers, Sequences, FiniteSets, TLC

(***************************************************************************)
(* Python str primitives                                                   *)
(***************************************************************************)
CharAt(s, i) == SubSeq(s, i, i)

\* str.isspace() characters that occur in the modelled texts
Whitespace == {" ", "\t", "\n", "\r"}

Digits == {"0", "1", "2", "3", "4", "5", "6", "7", "8", "9"}

LowerLetters == {"a", "b", "c", "d", "e", "f", "g", "h", "i", "j", "k", "l", "m",
                 "n", "o", "p", "q", "r", "s", "t", "u", "v", "w", "x", "y", "z"}

UpperLetters == {"A", "B", "C", "D", "E", "F", "G", "H", "I", "J", "K", "L", "M",
                 "N", "O", "P", "Q", "R", "S", "T", "U", "V", "W", "X", "Y", "Z"}

\* str.upper() on one character
UpperOf ==
    [c \in LowerLetters |->
        CASE c = "a" -> "A" [] c = "b" -> "B" [] c = "c" -> "C" [] c = "d" -> "D"
          [] c = "e" -> "E" [] c = "f" -> "F" [] c = "g" -> "G" [] c = "h" -> "H"
          [] c = "i" -> "I" [] c = "j" -> "J" [] c = "k" -> "K" [] c = "l" -> "L"
          [] c = "m" -> "M" [] c = "n" -> "N" [] c = "o" -> "O" [] c = "p" -> "P"
          [] c = "q" -> "Q" [] c = "r" -> "R" [] c = "s" -> "S" [] c = "t" -> "T"
          [] c = "u" -> "U" [] c = "v" -> "V" [] c = "w" -> "W" [] c = "x" -> "X"
          [] c = "y" -> "Y" [] c = "z" -> "Z"]

UpperChar(c) == IF c \in LowerLetters THEN UpperOf[c] ELSE c

RECURSIVE Upper(_)
Upper(s) == IF s = "" THEN "" ELSE UpperChar(Head(s)) \o Upper(Tail(s))

\* s.startswith(p)
StartsWith(s, p) == Len(s) >= Len(p) /\ SubSeq(s, 1, Len(p)) = p

\* sub in s
Contains(s, sub) ==
    \E i \in 1..(Len(s) - Len(sub) + 1) : SubSeq(s, i, i + Len(sub) - 1) = sub

RECURSIVE LStrip(_)
LStrip(s) == IF s # "" /\ Head(s) \in Whitespace THEN LStrip(Tail(s)) ELSE s

RECURSIVE RStrip(_)
RStrip(s) ==
    IF s # "" /\ CharAt(s, Len(s)) \in Whitespace
    THEN RStrip(SubSeq(s, 1, Len(s) - 1)) ELSE s

\* str.strip()
Strip(s) == RStrip(LStrip(s))

\* str.isdigit(): non-empty and every character a digit
IsDigit(s) == s # "" /\ \A i \in 1..Len(s) : CharAt(s, i) \in Digits

(***************************************************************************)
(* Python re: a backtracking matcher with the priorities of the re module. *)
(* A pattern is a sequence of items, matched left to right:                *)
(*   [k |-> "lit", s]                 a literal string                     *)
(*   [k |-> "cls", cls, mn, mx, lazy] a character class repeated mn..mx    *)
(*                                    times (mx = -1: no upper limit),     *)
(*                                    greedy, or lazy as with *? and +?    *)
(*   [k |-> "open", g], [k |-> "close", g]  the parentheses of group g     *)
(*   [k |-> "opt", body]              (?: body )?                          *)
(*   [k |-> "look", alts]             (?= alt1 | alt2 | ... )              *)
(*   [k |-> "end"]                    $                                    *)
(* ic is re.IGNORECASE.                                                    *)
(***************************************************************************)
Lit(s) == <<[k |-> "lit", s |-> s]>>
Cls(cls, mn, mx, lazy) == <<[k |-> "cls", cls |-> cls, mn |-> mn, mx |-> mx, lazy |-> lazy]>>
One(cls) == Cls(cls, 1, 1, FALSE)
Star(cls) == Cls(cls, 0, -1, FALSE)
Plus(cls) == Cls(cls, 1, -1, FALSE)
StarLazy(cls) == Cls(cls, 0, -1, TRUE)
PlusLazy(cls) == Cls(cls, 1, -1, TRUE)
Rep(cls, n) == Cls(cls, n, n, FALSE)
Open(g) == <<[k |-> "open", g |-> g]>>
Close(g) == <<[k |-> "close", g |-> g]>>
Opt(body) == <<[k |-> "opt", body |-> body]>>
Look(alts) == <<[k |-> "look", alts |-> alts]>>
End == <<[k |-> "end"]>>

\* the character classes the patterns of the program use
InClass(c, cls, ic) ==
    CASE cls = "d"      -> c \in Digits                       \* \d
      [] cls = "s"      -> c \in Whitespace                   \* \s
      [] cls = "any"    -> TRUE                               \* [\s\S]
      [] cls = "^n"     -> c # "\n"                           \* [^\n]
      [] cls = "^d"     -> c \notin Digits                    \* [^\d]
      [] cls = "^s"     -> c \notin Whitespace                \* [^\s]
      [] cls = "^/"     -> c # "/"                            \* [^/]
      [] cls = "AZ"     -> \/ c \in UpperLetters              \* [A-Z]
                           \/ (ic /\ c \in LowerLetters)
      [] cls = "d."     -> c \in Digits \cup {"."}            \* [\d\.]
      [] cls = "d,"     -> c \in Digits \cup {","}            \* [\d,]
      [] cls = "d/"     -> c \in Digits \cup {"/"}            \* [\d/]
      [] cls = "|:"     -> c \in {"|", ":"}                   \* [\|:]
      [] cls = "status" -> c \in UpperLetters \cup LowerLetters \cup Digits
                                   \cup Whitespace \cup {"(", ")"}  \* [A-Za-z0-9\s\(\)]

MaxGroups == 3
NoCaps == [g \in 1..MaxGroups |-> <<0, 0>>]
Fail == [ok |-> FALSE, start |-> 0, end |-> 0, caps |-> NoCaps]

\* the one element of a singleton. Only({ e(v) : v \in {d} }) is LET v == d IN e(v)
\* with d evaluated once, however often e uses v.
Only(S) == CHOOSE e \in S : TRUE

\* of a set W of pairs <<n, match>>: the match that succeeded with the least n
\* (First) or the greatest n (Last), and Fail when none succeeded
First(W) ==
    IF \A w \in W : ~w[2].ok THEN Fail
    ELSE (CHOOSE w \in W : w[2].ok /\ \A o \in W : o[2].ok => w[1] <= o[1])[2]
Last(W) ==
    IF \A w \in W : ~w[2].ok THEN Fail
    ELSE (CHOOSE w \in W : w[2].ok /\ \A o \in W : o[2].ok => w[1] >= o[1])[2]

\* the literal lit stands at position pos
LitAt(text, pos, lit, ic) ==
    /\ pos + Len(lit) - 1 <= Len(text)
    /\ \A j \in 1..Len(lit) :
          IF ic THEN UpperChar(CharAt(text, pos + j - 1)) = UpperChar(CharAt(lit, j))
                ELSE CharAt(text, pos + j - 1) = CharAt(lit, j)

\* how many characters from pos on are in the class, at most mx of them
Run(text, pos, cls, ic, mx) ==
    LET room == Len(text) - pos + 1
        lim  == IF mx < 0 \/ mx > room THEN room ELSE mx
    IN  IF lim <= 0 THEN 0
        ELSE CHOOSE n \in 0..lim :
                 /\ n = lim \/ ~InClass(CharAt(text, pos + n), cls, ic)
                 /\ \A j \in 0..(n - 1) : InClass(CharAt(text, pos + j), cls, ic)

\* the items matched from position pos on: the first match in re's order. A greedy
\* repetition takes the most characters with which the rest still matches, a lazy
\* one the fewest.
RECURSIVE MatchAt(_, _, _, _, _)
MatchAt(text, items, pos, caps, ic) ==
    IF items = <<>> THEN [ok |-> TRUE, start |-> 0, end |-> pos, caps |-> caps]
    ELSE
    LET it   == Head(items)
        rest == Tail(items)
    IN  CASE it.k = "lit" ->
               IF LitAt(text, pos, it.s, ic)
               THEN MatchAt(text, rest, pos + Len(it.s), caps, ic)
               ELSE Fail
          [] it.k = "cls" ->
               Only({ IF it.lazy THEN First(W) ELSE Last(W) :
                      W \in {{ <<n, MatchAt(text, rest, pos + n, caps, ic)>> :
                               n \in it.mn..Run(text, pos, it.cls, ic, it.mx) }} })
          [] it.k = "open" ->
               MatchAt(text, rest, pos, [caps EXCEPT ![it.g] = <<pos, 0>>], ic)
          [] it.k = "close" ->
               MatchAt(text, rest, pos, [caps EXCEPT ![it.g] = <<caps[it.g][1], pos>>], ic)
          [] it.k = "opt" ->
               Only({ IF r.ok THEN r ELSE MatchAt(text, rest, pos, caps, ic) :
                      r \in {MatchAt(text, it.body \o rest, pos, caps, ic)} })
          [] it.k = "look" ->
               IF \E a \in 1..Len(it.alts) : MatchAt(text, it.alts[a], pos, caps, ic).ok
               THEN MatchAt(text, rest, pos, caps, ic)
               ELSE Fail
          [] it.k = "end" ->
               IF pos = Len(text) + 1 \/ (pos = Len(text) /\ CharAt(text, pos) = "\n")
               THEN MatchAt(text, rest, pos, caps, ic)
               ELSE Fail

\* re.search(pattern, text, flags): the leftmost match, or a match with ok = FALSE
re_search(items, text, ic) ==
    Only({ First(W) :
           W \in {{ <<s, [MatchAt(text, items, s, NoCaps, ic) EXCEPT !.start = s]>> :
                    s \in 1..(Len(text) + 1) }} })

\* m.group(g), m.group(0)
Group(text, m, g) == SubSeq(text, m.caps[g][1], m.caps[g][2] - 1)
Group0(text, m) == SubSeq(text, m.start, m.end - 1)

\* re.sub(r'\s+', ' ', s): every run of whitespace becomes one space
RECURSIVE CollapseWs(_)
CollapseWs(s) ==
    IF s = "" THEN ""
    ELSE IF Head(s) \in Whitespace
         THEN " " \o CollapseWs(LStrip(s))
         ELSE Head(s) \o CollapseWs(Tail(s))

\* re.sub(r'\n\s*', ' ', s): a line break and the whitespace after it become one space
RECURSIVE SubNewlineWs(_)
SubNewlineWs(s) ==
    IF s = "" THEN ""
    ELSE IF Head(s) = "\n"
         THEN " " \o SubNewlineWs(LStrip(Tail(s)))
         ELSE Head(s) \o SubNewlineWs(Tail(s))

\* re.sub(r'[\|:\-\*]', '', s)
RECURSIVE RemovePunct(_)
RemovePunct(s) ==
    IF s = "" THEN ""
    ELSE IF Head(s) \in {"|", ":", "-", "*"}
         THEN RemovePunct(Tail(s))
         ELSE Head(s) \o RemovePunct(Tail(s))

\* s.replace(',', '')
RECURSIVE RemoveCommas(_)
RemoveCommas(s) ==
    IF s = "" THEN ""
    ELSE IF Head(s) = "," THEN RemoveCommas(Tail(s))
         ELSE Head(s) \o RemoveCommas(Tail(s))

\* s.split('/')
RECURSIVE SplitSlash(_)
SplitSlash(s) ==
    IF \A i \in 1..Len(s) : CharAt(s, i) # "/" THEN <<s>>
    ELSE LET i == CHOOSE j \in 1..Len(s) :
                      CharAt(s, j) = "/" /\ \A h \in 1..(j - 1) : CharAt(s, h) # "/"
         IN  <<SubSeq(s, 1, i - 1)>> \o SplitSlash(SubSeq(s, i + 1, Len(s)))

\* s.split()[-1] for a string with a non-blank character: its last field
LastField(s) ==
    LET t == RStrip(s)
        b == CHOOSE j \in 0..Len(t) :
                 /\ \A h \in (j + 1)..Len(t) : CharAt(t, h) \notin Whitespace
                 /\ (j = 0 \/ CharAt(t, j) \in Whitespace)
    IN  SubSeq(t, b + 1, Len(t))

\* year[-2:]
LastTwo(s) == IF Len(s) <= 2 THEN s ELSE SubSeq(s, Len(s) - 1, Len(s))

DigitValue(c) ==
    CASE c = "0" -> 0 [] c = "1" -> 1 [] c = "2" -> 2 [] c = "3" -> 3 [] c = "4" -> 4
      [] c = "5" -> 5 [] c = "6" -> 6 [] c = "7" -> 7 [] c = "8" -> 8 [] c = "9" -> 9

\* int(s) for a string of digits
RECURSIVE ParseInt(_)
ParseInt(s) ==
    IF s = "" THEN 0
    ELSE 10 * ParseInt(SubSeq(s, 1, Len(s) - 1)) + DigitValue(CharAt(s, Len(s)))

\* str(n) for n >= 0
RECURSIVE IntToStr(_)
IntToStr(n) ==
    IF n < 10 THEN CharAt("0123456789", n + 1)
    ELSE IntToStr(n \div 10) \o CharAt("0123456789", (n % 10) + 1)

(***************************************************************************)
(* UnifiedPDFProcessor                                                     *)
(***************************************************************************)
NotExtracted == "Not extracted"
FailedToExtract == "Failed to extract text"
Unknown == "Unknown"

required_fields ==
    <<"Claim no", "Decision", "Style No", "Item No", "Delivered quantity",
      "Supplier Name", "Dept.", "Order No", "Random quantity", "Faulty pcs",
      "Date of decision", "Description of faults", "customer_name">>

RequiredFields == {required_fields[i] : i \in 1..Len(required_fields)}

\* a classification that compares the file name as it is written
determine_doc_type_cased(filename) ==
    IF StartsWith(filename, "RDR") THEN "BPH"
    ELSE IF StartsWith(filename, "CR") THEN "OVH"
    ELSE "UNKNOWN"

determine_doc_type(filename) ==
    LET filename_upper == Upper(filename)
    IN  IF StartsWith(filename_upper, "RDR") THEN "BPH"
        ELSE IF StartsWith(filename_upper, "CR") THEN "OVH"
        ELSE "UNKNOWN"

\* a conversion whose mdy branch reorders the parts as the dmy branch does
convert_date_format_swapped(date_str, source_format) ==
    IF date_str = NotExtracted \/ date_str = "" THEN date_str
    ELSE LET d     == Strip(date_str)
             parts == SplitSlash(d)
         IN  IF Len(parts) = 3
             THEN parts[2] \o "/" \o parts[1] \o "/" \o LastTwo(parts[3])
             ELSE d

convert_date_format(date_str, source_format) ==
    IF date_str = NotExtracted \/ date_str = "" THEN date_str
    ELSE LET d     == Strip(date_str)
             parts == SplitSlash(d)
         IN  IF source_format = "dmy" /\ Len(parts) = 3
             THEN parts[2] \o "/" \o parts[1] \o "/" \o LastTwo(parts[3])
             ELSE IF source_format = "mdy" /\ Len(parts) = 3
             THEN IF Len(parts[3]) = 2 THEN d
                  ELSE parts[1] \o "/" \o parts[2] \o "/" \o LastTwo(parts[3])
             ELSE d

(***************************************************************************)
(* extract_bph_data: the patterns, then one operator for each field block. *)
(***************************************************************************)
Ws0 == Star("s")
Ws1 == Plus("s")
Num(g) == Open(g) \o Plus("d") \o Close(g)
\* the label separator \s*[\|:]?\s*
Sep == Ws0 \o Cls("|:", 0, 1, FALSE) \o Ws0
\* (\d+/\d+/\d+)
DateToken(g) == Open(g) \o Plus("d") \o Lit("/") \o Plus("d") \o Lit("/") \o Plus("d") \o Close(g)

bph_claim_pat1 == Lit("Reclamation") \o Ws1 \o Lit("ID") \o Sep \o Num(1)
bph_claim_pat2 ==
    Lit("Reclamation") \o Ws1 \o Lit("details") \o Ws1 \o Lit("report") \o Ws1 \o Lit("with")
      \o Ws1 \o Lit("reclamation") \o Ws1 \o Lit("ID") \o Ws0 \o Lit("=") \o Ws0 \o Num(1)
bph_style_pat1 == Lit("Style") \o Ws1 \o Lit("No") \o Sep \o Num(1)
bph_style_pat2 ==
    Lit("Style") \o Ws1 \o Lit("No") \o Ws1 \o Lit("Item") \o Ws1 \o Lit("No")
      \o Star("^d") \o Num(1) \o Ws1 \o Num(2)
bph_item_pat == Lit("Item") \o Ws1 \o Lit("No") \o Sep \o Num(1)
bph_quantity_pat1 == Lit("Delivered") \o Ws1 \o Lit("quantity") \o Sep \o Num(1)
bph_quantity_pat2 ==
    Lit("Delivered") \o Ws1 \o Lit("quantity") \o Ws1 \o Lit("Office") \o Star("^d") \o Num(1)
\* (\d{6})\s+([^\n]+?)
SupplierBody == Open(1) \o Rep("d", 6) \o Close(1) \o Ws1 \o Open(2) \o PlusLazy("^n") \o Close(2)
supplier_patterns ==
    << Lit("OI China") \o Ws1 \o SupplierBody \o Ws0 \o Lit("Dept./Subdept."),
       Lit("OI") \o Ws1 \o Lit("China") \o Ws1 \o SupplierBody \o Ws0 \o Lit("Dept./Subdept."),
       Lit("OI China") \o Ws1 \o SupplierBody \o Ws1 \o Lit("Dept./Subdept."),
       Lit("OI") \o Ws1 \o Lit("China") \o Ws1 \o SupplierBody \o Ws1 \o Lit("Dept./Subdept.") >>
bph_dept_pat1 == Lit("Dept./Subdept.") \o Sep \o Open(1) \o Plus("d.") \o Close(1)
bph_dept_pat2 ==
    Lit("Dept./Subdept.") \o Ws1 \o Lit("Order") \o Ws1 \o Lit("No") \o Star("^d")
      \o Open(1) \o Plus("d.") \o Close(1) \o Ws1 \o Num(2)
bph_order_pat == Lit("Order") \o Ws1 \o Lit("No") \o Sep \o Num(1)
bph_sample_faulty_pat ==
    Lit("Random") \o Ws1 \o Lit("sample") \o Ws0 \o Lit("Faulty") \o Ws1 \o Lit("pieces")
      \o Ws0 \o Num(1) \o Ws0 \o Num(2)
bph_decision_table_pat ==
    Lit("Decided by") \o Ws1 \o Lit("Date of decision") \o Ws1 \o Lit("Decision")
bph_date_decision_pat == Lit("Date of decision") \o Ws1 \o DateToken(1)
bph_decided_by_pat == Lit("Decided by") \o Star("^n")
bph_comment_pat ==
    Lit("Comment") \o Ws1 \o Lit("for") \o Ws1 \o Lit("market") \o Star("^n")
      \o Open(1) \o StarLazy("any") \o Close(1)
      \o Look(<< Lit("Samples"),
                 Lit("Rework") \o Ws1 \o Lit("details"),
                 Lit("Reclamation") \o Ws1 \o Lit("details") \o Ws1 \o Lit("report"),
                 Lit("Printed") \o Ws1 \o Lit("on"),
                 End >>)
\* pattern3, built around the claim number found before
bph_status_pat(claim_id) ==
    Lit("Reclamation") \o Ws1 \o Lit("ID") \o Ws0 \o StarLazy("any") \o Lit(claim_id)
      \o Ws1 \o Open(1) \o PlusLazy("status") \o Close(1)
      \o Look(<< Ws0 \o Lit("\n"),
                 Ws0 \o Lit("Style") \o Ws1 \o Lit("No"),
                 Ws0 \o Lit("Date") \o Ws1 \o Lit("of") \o Ws1 \o Lit("delivery") >>)

\* the value of the local style_match after the Style No block: the match and the
\* number of groups of the pattern that produced it
bph_style_match(text) ==
    LET m1 == re_search(bph_style_pat1, text, TRUE)
    IN  IF m1.ok THEN [m |-> m1, groups |-> 1]
        ELSE [m |-> re_search(bph_style_pat2, text, TRUE), groups |-> 2]

bph_dept_match(text) ==
    LET m1 == re_search(bph_dept_pat1, text, TRUE)
    IN  IF m1.ok THEN [m |-> m1, groups |-> 1]
        ELSE [m |-> re_search(bph_dept_pat2, text, TRUE), groups |-> 2]

bph_claim_no(text, data) ==
    LET m1 == re_search(bph_claim_pat1, text, TRUE)
        claim_match == IF m1.ok THEN m1 ELSE re_search(bph_claim_pat2, text, TRUE)
    IN  IF claim_match.ok
        THEN [data EXCEPT !["Claim no"] = Group(text, claim_match, 1)]
        ELSE data

bph_style_no(text, data) ==
    LET style_match == bph_style_match(text)
    IN  IF style_match.m.ok
        THEN [data EXCEPT !["Style No"] = Group(text, style_match.m, 1)]
        ELSE data

bph_item_no(text, data) ==
    LET item_match  == re_search(bph_item_pat, text, TRUE)
        style_match == bph_style_match(text)
    IN  IF ~item_match.ok /\ style_match.m.ok /\ style_match.groups > 1
        THEN [data EXCEPT !["Item No"] = Group(text, style_match.m, 2)]
        ELSE IF item_match.ok
        THEN [data EXCEPT !["Item No"] = Group(text, item_match, 1)]
        ELSE data

bph_delivered_quantity(text, data) ==
    LET m1 == re_search(bph_quantity_pat1, text, TRUE)
        quantity_match == IF m1.ok THEN m1 ELSE re_search(bph_quantity_pat2, text, TRUE)
        quantity == Group(text, quantity_match, 1)
    IN  IF quantity_match.ok
        THEN IF Len(quantity) = 6
             THEN [data EXCEPT !["Delivered quantity"] = NotExtracted]
             ELSE [data EXCEPT !["Delivered quantity"] = quantity]
        ELSE data

RECURSIVE bph_supplier_try(_, _)
bph_supplier_try(text, i) ==
    IF i > Len(supplier_patterns) THEN NotExtracted
    ELSE LET supplier_match == re_search(supplier_patterns[i], text, TRUE)
         IN  IF supplier_match.ok
             THEN CollapseWs(Strip(Group(text, supplier_match, 2)))
             ELSE bph_supplier_try(text, i + 1)

bph_supplier_name(text, data) ==
    [data EXCEPT !["Supplier Name"] = bph_supplier_try(text, 1)]

bph_dept(text, data) ==
    LET dept_match == bph_dept_match(text)
    IN  IF dept_match.m.ok
        THEN [data EXCEPT !["Dept."] = Group(text, dept_match.m, 1)]
        ELSE data

bph_order_no(text, data) ==
    LET order_match == re_search(bph_order_pat, text, TRUE)
        dept_match  == bph_dept_match(text)
    IN  IF ~order_match.ok /\ dept_match.m.ok /\ dept_match.groups > 1
        THEN [data EXCEPT !["Order No"] = Group(text, dept_match.m, 2)]
        ELSE IF order_match.ok
        THEN [data EXCEPT !["Order No"] = Group(text, order_match, 1)]
        ELSE data

bph_random_faulty(text, data) ==
    LET sample_faulty_match == re_search(bph_sample_faulty_pat, text, FALSE)
    IN  IF sample_faulty_match.ok
        THEN [data EXCEPT !["Random quantity"] = Group(text, sample_faulty_match, 1),
                          !["Faulty pcs"] = Group(text, sample_faulty_match, 2)]
        ELSE data

\* the first tier: the line after the table header
bph_date_tier_a(text, data) ==
    LET decision_table_match == re_search(bph_decision_table_pat, text, TRUE)
        after            == SubSeq(text, decision_table_match.end, Len(text))
        next_line_match  == re_search(Plus("^n"), after, FALSE)
        data_line        == Group0(after, next_line_match)
        date_match       == re_search(DateToken(1), data_line, FALSE)
    IN  IF decision_table_match.ok /\ next_line_match.ok /\ date_match.ok
        THEN [data EXCEPT !["Date of decision"] =
                  convert_date_format(Group(data_line, date_match, 1), "mdy")]
        ELSE data

\* the second tier: the labelled date
bph_date_tier_b(text, data) ==
    LET date_decision_match == re_search(bph_date_decision_pat, text, TRUE)
    IN  IF data["Date of decision"] = NotExtracted /\ date_decision_match.ok
        THEN [data EXCEPT !["Date of decision"] =
                  convert_date_format(Group(text, date_decision_match, 1), "mdy")]
        ELSE data

\* the third tier: re.search(r'[^\n]*', text[end_pos:]) after the "Decided by" line
bph_date_tier_c(text, data) ==
    LET decided_by_match == re_search(bph_decided_by_pat, text, TRUE)
        after            == SubSeq(text, decided_by_match.end, Len(text))
        next_line_match  == re_search(Star("^n"), after, FALSE)
        next_line        == Strip(Group0(after, next_line_match))
        date_match       == re_search(DateToken(1), next_line, FALSE)
    IN  IF data["Date of decision"] = NotExtracted /\ decided_by_match.ok
           /\ next_line_match.ok /\ date_match.ok
        THEN [data EXCEPT !["Date of decision"] =
                  convert_date_format(Group(next_line, date_match, 1), "mdy")]
        ELSE data

bph_date_of_decision(text, data) ==
    bph_date_tier_c(text, bph_date_tier_b(text, bph_date_tier_a(text, data)))

bph_description(text, data) ==
    LET comment_match == re_search(bph_comment_pat, text, TRUE)
        comment == CollapseWs(SubNewlineWs(Strip(Group(text, comment_match, 1))))
    IN  IF comment_match.ok
        THEN [data EXCEPT !["Description of faults"] = Strip(comment)]
        ELSE data

\* re.sub(r'\s+\d+$', '', s)
StripNumberTail(s) ==
    LET m == re_search(Ws1 \o Plus("d") \o End, s, FALSE)
    IN  IF m.ok THEN SubSeq(s, 1, m.start - 1) \o SubSeq(s, m.end, Len(s)) ELSE s

bph_decision(text, data) ==
    LET claim_id      == data["Claim no"]
        status_match3 == re_search(bph_status_pat(claim_id), text, TRUE)
        status_text   == StripNumberTail(Strip(CollapseWs(
                             RemovePunct(Strip(Group(text, status_match3, 1))))))
    IN  IF claim_id # NotExtracted /\ status_match3.ok
           /\ status_text # "" /\ ~IsDigit(status_text)
        THEN [data EXCEPT !["Decision"] = status_text]
        ELSE data

\* the field blocks of extract_bph_data in the order of the code
BphSteps == 11
bph_step(k, text, data) ==
    CASE k = 1  -> bph_claim_no(text, data)
      [] k = 2  -> bph_style_no(text, data)
      [] k = 3  -> bph_item_no(text, data)
      [] k = 4  -> bph_delivered_quantity(text, data)
      [] k = 5  -> bph_supplier_name(text, data)
      [] k = 6  -> bph_dept(text, data)
      [] k = 7  -> bph_order_no(text, data)
      [] k = 8  -> bph_random_faulty(text, data)
      [] k = 9  -> bph_date_of_decision(text, data)
      [] k = 10 -> bph_description(text, data)
      [] k = 11 -> bph_decision(text, data)

\* a seeding that forgets the last required field
SeedRecord_short(customer) ==
    [f \in RequiredFields \ {"Description of faults"} |->
        IF f = "customer_name" THEN customer ELSE NotExtracted]

\* the record both extractors start from
SeedRecord(customer) ==
    [f \in RequiredFields |-> IF f = "customer_name" THEN customer ELSE NotExtracted]

\* The try block of an extractor runs its field blocks in order. bph_blocks is the
\* record as it stands after 0, 1, ..., BphSteps blocks.
RECURSIVE bph_blocks(_, _)
bph_blocks(text, k) ==
    IF k = 0 THEN <<SeedRecord("BPH")>>
    ELSE Only({ Append(before, bph_step(k, text, before[k])) :
                before \in {bph_blocks(text, k - 1)} })

(***************************************************************************)
(* extract_ovh_data                                                        *)
(***************************************************************************)
\* (\d{1,2}/\d{1,2}/\d{2})
ShortDate(g) ==
    Open(g) \o Cls("d", 1, 2, FALSE) \o Lit("/") \o Cls("d", 1, 2, FALSE) \o Lit("/")
      \o Rep("d", 2) \o Close(g)
\* ([A-Z])\s*/\s*([A-Z])\s*/\s*[^/]+\s*/\s*
DeciPrefix ==
    Open(1) \o One("AZ") \o Close(1) \o Ws0 \o Lit("/") \o Ws0
      \o Open(2) \o One("AZ") \o Close(2) \o Ws0 \o Lit("/") \o Ws0
      \o Plus("^/") \o Ws0 \o Lit("/") \o Ws0

ovh_otto_pat == Open(1) \o Rep("d", 7) \o Close(1) \o Ws1 \o Lit("OTTO")
ovh_incoming_pat ==
    Lit("Buyin") \o Ws1 \o Lit("Incoming") \o Ws1 \o Lit("date") \o Ws0 \o Plus("d/") \o Ws0
      \o Open(1) \o PlusLazy("^n") \o Close(1) \o Ws0 \o Lit("No.") \o Ws1 \o Lit("bowls")
ovh_dept_pat == Lit("dept.") \o Ws0 \o Open(1) \o Plus("d.") \o Close(1)
ovh_cat_pat ==
    Lit("Cat.-No./Page/Block") \o Ws0 \o Open(1) \o StarLazy("^n") \o Close(1)
      \o Open(2) \o Rep("d", 8) \o Close(2)
ovh_style_section_pat ==
    Lit("Style") \o Ws1 \o Lit("No.") \o Ws0 \o Open(1) \o Plus("^n") \o Close(1)
ovh_delivered_pat ==
    Open(1) \o Plus("d,") \o Close(1) \o Ws1 \o One("AZ") \o Ws1 \o Plus("d")
ovh_order_pat == One("AZ") \o Ws1 \o Open(1) \o Rep("d", 6) \o Close(1)
ovh_style_two_line_pat ==
    Lit("Style") \o Ws1 \o Lit("No.") \o Ws0 \o Lit("\n") \o Ws0
      \o Open(1) \o PlusLazy("^n") \o Close(1) \o Ws0 \o Lit("\n") \o Ws0
      \o Lit("Inspection result")
ovh_style_same_line_pat == Rep("d", 6) \o Ws1 \o Open(1) \o Plus("^s") \o Close(1)
ovh_pcs_set_pat ==
    Lit("pcs/") \o Ws0 \o Lit("set") \o Ws0 \o Num(1) \o Ws0 \o Num(2)
      \o Opt(Ws0 \o Num(3))
ovh_deci_date_pat == DeciPrefix \o ShortDate(3)
ovh_deci_pat == DeciPrefix \o End
ovh_description_pat ==
    Lit("Description") \o Ws1 \o Lit("of") \o Ws1 \o Lit("faults") \o Ws0
      \o Open(1) \o StarLazy("any") \o Close(1) \o Look(<< Ws0 \o Lit("Rework") >>)

ovh_claim_no(text, data) ==
    LET otto_match == re_search(ovh_otto_pat, text, FALSE)
    IN  IF otto_match.ok
        THEN [data EXCEPT !["Claim no"] = Group(text, otto_match, 1)]
        ELSE data

ovh_supplier_name(text, data) ==
    LET incoming_match == re_search(ovh_incoming_pat, text, TRUE)
    IN  IF incoming_match.ok
        THEN [data EXCEPT !["Supplier Name"] =
                  CollapseWs(Strip(Group(text, incoming_match, 1)))]
        ELSE data

ovh_dept(text, data) ==
    LET dept_match == re_search(ovh_dept_pat, text, TRUE)
    IN  IF dept_match.ok
        THEN [data EXCEPT !["Dept."] = Group(text, dept_match, 1)]
        ELSE data

ovh_item_no(text, data) ==
    LET cat_match == re_search(ovh_cat_pat, text, TRUE)
    IN  IF cat_match.ok
        THEN [data EXCEPT !["Item No"] = Group(text, cat_match, 2)]
        ELSE data

ovh_delivered_quantity(text, data) ==
    LET style_no_section == re_search(ovh_style_section_pat, text, TRUE)
        style_line       == Group(text, style_no_section, 1)
        delivered_match  == re_search(ovh_delivered_pat, style_line, FALSE)
    IN  IF style_no_section.ok /\ delivered_match.ok
        THEN [data EXCEPT !["Delivered quantity"] =
                  RemoveCommas(Group(style_line, delivered_match, 1))]
        ELSE data

ovh_order_no(text, data) ==
    LET style_no_section == re_search(ovh_style_section_pat, text, TRUE)
        style_line       == Group(text, style_no_section, 1)
        order_match      == re_search(ovh_order_pat, style_line, FALSE)
    IN  IF style_no_section.ok /\ order_match.ok
        THEN [data EXCEPT !["Order No"] = Group(style_line, order_match, 1)]
        ELSE data

ovh_style_no(text, data) ==
    LET two_line  == re_search(ovh_style_two_line_pat, text, TRUE)
        line2     == Strip(Group(text, two_line, 1))
        same_line == re_search(ovh_style_section_pat, text, TRUE)
        style_line  == Strip(Group(text, same_line, 1))
        style_match == re_search(ovh_style_same_line_pat, style_line, FALSE)
    IN  IF two_line.ok
        THEN IF line2 # "" THEN [data EXCEPT !["Style No"] = LastField(line2)] ELSE data
        ELSE IF same_line.ok
        THEN IF style_match.ok
             THEN [data EXCEPT !["Style No"] = Group(style_line, style_match, 1)]
             ELSE IF style_line # ""
             THEN [data EXCEPT !["Style No"] = LastField(style_line)]
             ELSE data
        ELSE data

ovh_random_faulty(text, data) ==
    LET pcs_set_match == re_search(ovh_pcs_set_pat, text, TRUE)
        num1 == ParseInt(Group(text, pcs_set_match, 1))
        num2 == ParseInt(Group(text, pcs_set_match, 2))
    IN  IF pcs_set_match.ok
        THEN IF pcs_set_match.caps[3][1] > 0
             THEN [data EXCEPT !["Random quantity"] = IntToStr(num1 + num2),
                               !["Faulty pcs"] = Group(text, pcs_set_match, 3)]
             ELSE [data EXCEPT !["Random quantity"] = Group(text, pcs_set_match, 1),
                               !["Faulty pcs"] = Group(text, pcs_set_match, 2)]
        ELSE data

ovh_decision_and_date(text, data) ==
    LET deci_date_match == re_search(ovh_deci_date_pat, text, FALSE)
        date_match      == re_search(ShortDate(1), text, FALSE)
        before_date     == SubSeq(text, 1, date_match.start - 1)
        deci_match      == re_search(ovh_deci_pat, before_date, FALSE)
    IN  IF deci_date_match.ok
        THEN [data EXCEPT !["Decision"] = Group(text, deci_date_match, 2),
                          !["Date of decision"] =
                              convert_date_format(Group(text, deci_date_match, 3), "dmy")]
        ELSE IF date_match.ok /\ deci_match.ok
        THEN [data EXCEPT !["Decision"] = Group(before_date, deci_match, 2),
                          !["Date of decision"] =
                              convert_date_format(Group(text, date_match, 1), "dmy")]
        ELSE data

ovh_description(text, data) ==
    LET description_match == re_search(ovh_description_pat, text, TRUE)
    IN  IF description_match.ok
        THEN [data EXCEPT !["Description of faults"] =
                  CollapseWs(SubNewlineWs(Strip(Group(text, description_match, 1))))]
        ELSE data

OvhSteps == 10
ovh_step(k, text, data) ==
    CASE k = 1  -> ovh_claim_no(text, data)
      [] k = 2  -> ovh_supplier_name(text, data)
      [] k = 3  -> ovh_dept(text, data)
      [] k = 4  -> ovh_item_no(text, data)
      [] k = 5  -> ovh_delivered_quantity(text, data)
      [] k = 6  -> ovh_order_no(text, data)
      [] k = 7  -> ovh_style_no(text, data)
      [] k = 8  -> ovh_random_faulty(text, data)
      [] k = 9  -> ovh_decision_and_date(text, data)
      [] k = 10 -> ovh_description(text, data)

RECURSIVE ovh_blocks(_, _)
ovh_blocks(text, k) ==
    IF k = 0 THEN <<SeedRecord("OVH")>>
    ELSE Only({ Append(before, ovh_step(k, text, before[k])) :
                before \in {ovh_blocks(text, k - 1)} })

(***************************************************************************)
(* PDFTextExtractor. A PDF is its pages' texts (page.extract_text(), "" for *)
(* a page without text) and whether pdfplumber fails on it.                *)
(***************************************************************************)
RECURSIVE JoinPages(_)
JoinPages(pages) ==
    IF pages = <<>> THEN ""
    ELSE IF Head(pages) # "" THEN Head(pages) \o "\n" \o JoinPages(Tail(pages))
         ELSE JoinPages(Tail(pages))

extract_text_from_pdf(pdf) ==
    IF pdf.corrupt THEN FailedToExtract
    ELSE LET text == JoinPages(pdf.pages)
         IN  IF Strip(text) = "" THEN FailedToExtract ELSE text

(***************************************************************************)
(* The documents of the model.                                             *)
(***************************************************************************)
PageBphHead ==
    "Reclamation ID 123456 QD45 (Q)\nStyle No 4711 Item No 815\nDelivered quantity 1200\nOI China 654321 Acme  Textiles Dept./Subdept. 12.3 Order No 007123"
PageBphTail ==
    "Random sample Faulty pieces 80 5\nDecided by Date of decision Decision\nJ Doe 12/25/2024 Q\nComment for market\nseam open\n at hem\nSamples 3"
PageBphMin == "Reclamation ID 123456"
PageOvhFull ==
    "1234567 OTTO Control\nBuyin Incoming date 01/02/24 Best  Shirts No. bowls 2\ndept. 44.5\nCat.-No./Page/Block AB 12345678\nStyle No. 1,200 A 004567 ST-99\nInspection result\npcs/set 50 30 2\nA / Q / x / 25/12/24\nDescription of faults hole\n in sleeve Rework none"
PageOvhTwo ==
    "OTTO Control 7654321 OTTO\nStyle No.\n 88 B 123456 ZZ-1 \nInspection result\npcs/ set 80 5\nQ / R / y / \n3/4/21 \nDescription of faults stain Rework"

Pdf(pages) == [pages |-> pages, corrupt |-> FALSE]
CorruptPdf == [pages |-> <<>>, corrupt |-> TRUE]

\* an uploaded file: its name, its bytes (the PDF), the block of the extractor in
\* which an exception is raised when it is processed (0: none), and whether its
\* bytes can be written to the temporary file. The exception is any the extractor's
\* except clause catches: the ValueError of int() on a number longer than the
\* interpreter's digit limit in the pcs/set block of extract_ovh_data (block 8), a
\* MemoryError in any block of either extractor.
Doc(name, pdf, fault, writable) ==
    [name |-> name, pdf |-> pdf, fault |-> fault, writable |-> writable]

DocPool ==
    { Doc("RDR_1001.pdf", Pdf(<<PageBphHead, "", PageBphTail>>), 0, TRUE),
      Doc("rdr-min.pdf",  Pdf(<<PageBphMin>>), 0, TRUE),
      Doc("CR_2002.pdf",  Pdf(<<PageOvhFull>>), 0, TRUE),
      Doc("cr7.PDF",      Pdf(<<PageOvhTwo>>), 0, TRUE),
      Doc("scan01.pdf",   Pdf(<<PageBphMin>>), 0, TRUE),
      Doc("scan02.pdf",   Pdf(<<PageOvhFull>>), 0, TRUE),
      Doc("scan03.pdf",   Pdf(<<"Invoice 2024 nothing to see">>), 0, TRUE),
      Doc("scan04.pdf",   Pdf(<<"Reclamation ID 5\nOTTO Control\n1234567 OTTO\npcs/set 7 1">>), 0, TRUE),
      Doc("xcr_low.pdf",  Pdf(<<"reclamation id 77 Free goods\notto control">>), 0, TRUE),
      Doc("RDR_otto.pdf", Pdf(<<PageOvhFull>>), 0, TRUE),
      Doc("Cr_recl.pdf",  Pdf(<<PageBphHead, PageBphTail>>), 0, TRUE),
      Doc("RDR_bad.pdf",  CorruptPdf, 0, TRUE),
      Doc("CR_blank.pdf", Pdf(<<"", " ", "\n">>), 0, TRUE),
      Doc("RDR_f3.pdf",   Pdf(<<PageBphHead, PageBphTail>>), 3, TRUE),
      Doc("RDR_f11.pdf",  Pdf(<<PageBphHead, PageBphTail>>), 11, TRUE),
      Doc("CR_f8.pdf",    Pdf(<<PageOvhFull>>), 8, TRUE),
      Doc("scan_f1.pdf",  Pdf(<<PageOvhTwo>>), 1, TRUE),
      Doc("RDR_full.pdf", Pdf(<<PageBphMin>>), 0, FALSE),
      Doc("RDR_combined.pdf", Pdf(<<"Reclamation ID 555\nStyle No Item No 123 456\nDelivered quantity 10">>), 0, TRUE),
      Doc("RDR_combined2.pdf", Pdf(<<"Reclamation ID 556\nStyle No Item No -- 123 456">>), 0, TRUE),
      Doc("RDR_date_b.pdf", Pdf(<<"Reclamation ID 557\nDecided by Date of decision Decision\nJ Doe pending\nDate of decision 3/4/2021">>), 0, TRUE),
      Doc("RDR_date_c.pdf", Pdf(<<"Reclamation ID 558\nDecided by\n5/6/2022 J Doe">>), 0, TRUE),
      Doc("RDR_date_ab.pdf", Pdf(<<"Reclamation ID 560\nDecided by Date of decision Decision\nJ Doe 1/2/2023 Q\nDate of decision 3/4/2021">>), 0, TRUE) }

\* fault is the block in which an exception is raised (0: none): the except clause
\* logs it and the record is returned as it stands. attempted are the blocks begun.
extract_bph_data(text, fault) ==
    IF fault \in 1..BphSteps
    THEN [extractor |-> "BPH", data |-> bph_blocks(text, fault - 1)[fault],
          attempted |-> 1..fault, raised |-> TRUE]
    ELSE [extractor |-> "BPH", data |-> bph_blocks(text, BphSteps)[BphSteps + 1],
          attempted |-> 1..BphSteps, raised |-> FALSE]

extract_ovh_data(text, fault) ==
    IF fault \in 1..OvhSteps
    THEN [extractor |-> "OVH", data |-> ovh_blocks(text, fault - 1)[fault],
          attempted |-> 1..fault, raised |-> TRUE]
    ELSE [extractor |-> "OVH", data |-> ovh_blocks(text, OvhSteps)[OvhSteps + 1],
          attempted |-> 1..OvhSteps, raised |-> FALSE]

\* a failure record without the customer_name assignment
FailedRecord_untagged ==
    [f \in RequiredFields |-> FailedToExtract]

FailedRecord ==
    [f \in RequiredFields |-> IF f = "customer_name" THEN Unknown ELSE FailedToExtract]

extract_data_from_pdf(pdf, filename, fault) ==
    LET text     == extract_text_from_pdf(pdf)
        doc_type == determine_doc_type(filename)
    IN  IF text = FailedToExtract
        THEN [extractor |-> "none", data |-> FailedRecord,
              attempted |-> {}, raised |-> FALSE]
        ELSE IF doc_type = "BPH" THEN extract_bph_data(text, fault)
        ELSE IF doc_type = "OVH" THEN extract_ovh_data(text, fault)
        ELSE IF Contains(text, "Reclamation") /\ Contains(text, "Reclamation ID")
        THEN extract_bph_data(text, fault)
        ELSE IF Contains(text, "OTTO") /\ Contains(text, "Control")
        THEN extract_ovh_data(text, fault)
        ELSE extract_bph_data(text, fault)

\* extract_data_from_pdf for every document of the model
ExtractionOf == [d \in DocPool |-> extract_data_from_pdf(d.pdf, d.name, d.fault)]

(***************************************************************************)
(* pandas: a cell is a value or NaN; a frame is its columns and its rows,  *)
(* each row a function from column names to cells.                         *)
(***************************************************************************)
Cell(s) == [na |-> FALSE, s |-> s]
NaN == [na |-> TRUE, s |-> "nan"]
\* str(cell) and pd.isna(cell)
PyStr(cell) == cell.s
IsNa(cell) == cell.na

SourceFile == "Source File"
SourceColumns == required_fields \o <<SourceFile>>

\* pd.DataFrame(records): the columns are the keys of the records
DataFrame(records, columns) ==
    [columns |-> IF records = <<>> THEN <<>> ELSE columns,
     rows    |-> [i \in 1..Len(records) |->
                     [c \in DOMAIN records[i] |-> Cell(records[i][c])]]]

ColumnSet(df) == {df.columns[i] : i \in 1..Len(df.columns)}

\* a column forced to a number and back: all-digit values lose their leading zeros
AsTypeStr_numeric(df, column) ==
    IF column \in ColumnSet(df)
    THEN [df EXCEPT !.rows =
             [i \in 1..Len(df.rows) |->
                 [df.rows[i] EXCEPT ![column] =
                     IF IsDigit(PyStr(df.rows[i][column]))
                     THEN Cell(IntToStr(ParseInt(PyStr(df.rows[i][column]))))
                     ELSE Cell(PyStr(df.rows[i][column]))]]]
    ELSE df

\* df[column] = df[column].astype(str), when the frame has the column
AsTypeStr(df, column) ==
    IF column \in ColumnSet(df)
    THEN [df EXCEPT !.rows =
             [i \in 1..Len(df.rows) |->
                 [df.rows[i] EXCEPT ![column] = Cell(PyStr(df.rows[i][column]))]]]
    ELSE df

\* df.empty
IsEmpty(df) == Len(df.rows) = 0 \/ Len(df.columns) = 0

(***************************************************************************)
(* DataMapper                                                              *)
(***************************************************************************)
target_columns ==
    <<"Picture", "Production Type", "Claim Type", "Vendor", "Claim No.",
      "Claim Date", "Inspection Date", "Customer", "Dept.", "FID",
      "TEAM", "QC Trip Leader", "Style NO.", "Order No.", "Article No.",
      "Relevant shipped Qty", "Quality Digit (Market)", "Defect Code",
      "Claim Reason", "QC Responsibility", "Claim Status", "Validate Month",
      "Claim shipped Qty", "Random check in customer warehouse", "Re-check in warehouse">>

TargetColumns == {target_columns[i] : i \in 1..Len(target_columns)}

RandomCheck == "Random check in customer warehouse"

\* a sanitizer without the pd.isna test
safe_extract_value_no_isna(row, column_name) ==
    IF column_name \notin DOMAIN row THEN ""
    ELSE LET value == PyStr(row[column_name])
         IN  IF Contains(value, NotExtracted) THEN ""
             ELSE IF Strip(value) = "" THEN ""
             ELSE Strip(value)

safe_extract_value(row, column_name) ==
    IF column_name \notin DOMAIN row THEN ""
    ELSE LET value == PyStr(row[column_name])
         IN  IF Contains(value, NotExtracted) THEN ""
             ELSE IF IsNa(row[column_name]) \/ Strip(value) = "" THEN ""
             ELSE Strip(value)

get_claim_type(row) ==
    LET decision_value == safe_extract_value(row, "Decision")
    IN  IF decision_value = "" THEN "Claim"
        ELSE IF Contains(decision_value, NotExtracted) THEN ""
        ELSE IF decision_value \in {"QD45 (Q)", "Q"} THEN "Complaint"
        ELSE "Claim"

\* a combination that tests the sentinel but not emptiness
combine_faulty_random_no_empty(row) ==
    LET faulty_pcs == safe_extract_value(row, "Faulty pcs")
        random_qty == safe_extract_value(row, "Random quantity")
    IN  IF faulty_pcs # NotExtracted /\ random_qty # NotExtracted
        THEN faulty_pcs \o "/" \o random_qty
        ELSE ""

combine_faulty_random(row) ==
    LET faulty_pcs == safe_extract_value(row, "Faulty pcs")
        random_qty == safe_extract_value(row, "Random quantity")
    IN  IF faulty_pcs # "" /\ random_qty # ""
           /\ faulty_pcs # NotExtracted /\ random_qty # NotExtracted
        THEN faulty_pcs \o "/" \o random_qty
        ELSE ""

\* target column -> source column
field_mappings ==
    << <<"Vendor", "Supplier Name">>,
       <<"Claim No.", "Claim no">>,
       <<"Customer", "customer_name">>,
       <<"Dept.", "Dept.">>,
       <<"Style NO.", "Style No">>,
       <<"Order No.", "Order No">>,
       <<"Article No.", "Item No">>,
       <<"Relevant shipped Qty", "Delivered quantity">>,
       <<"Claim Reason", "Description of faults">>,
       <<"Claim Date", "Date of decision">> >>

MappedTargets == {field_mappings[i][1] : i \in 1..Len(field_mappings)}
SourceOf(target_field) ==
    (CHOOSE i \in 1..Len(field_mappings) : field_mappings[i][1] = target_field)

\* a row mapping that writes the delivered quantity to Claim shipped Qty as well
process_single_row_shipped(source_row) ==
    [col \in TargetColumns |->
        CASE col = "Claim Type"   -> get_claim_type(source_row)
          [] col = "Claim Status" -> "Failure"
          [] col \in MappedTargets ->
                safe_extract_value(source_row, field_mappings[SourceOf(col)][2])
          [] col = RandomCheck    -> combine_faulty_random(source_row)
          [] col = "Claim shipped Qty" -> safe_extract_value(source_row, "Delivered quantity")
          [] OTHER -> ""]

process_single_row(source_row) ==
    [col \in TargetColumns |->
        CASE col = "Claim Type"   -> get_claim_type(source_row)
          [] col = "Claim Status" -> "Failure"
          [] col \in MappedTargets ->
                safe_extract_value(source_row, field_mappings[SourceOf(col)][2])
          [] col = RandomCheck    -> combine_faulty_random(source_row)
          [] col = "Validate Month" -> ""
          [] OTHER -> ""]

\* a table mapping that skips the rows of documents whose text could not be read
map_to_target_format_skip(source_df) ==
    IF IsEmpty(source_df) THEN [columns |-> target_columns, rows |-> <<>>]
    ELSE AsTypeStr(
           DataFrame(
             LET kept == SelectSeq(source_df.rows,
                                   LAMBDA r : safe_extract_value(r, "customer_name") # Unknown)
             IN  [i \in 1..Len(kept) |-> process_single_row(kept[i])],
             target_columns),
           RandomCheck)

map_to_target_format(source_df) ==
    IF IsEmpty(source_df) THEN [columns |-> target_columns, rows |-> <<>>]
    ELSE AsTypeStr(
           DataFrame([i \in 1..Len(source_df.rows) |-> process_single_row(source_df.rows[i])],
                     target_columns),
           RandomCheck)

(***************************************************************************)
(* get_download_link: the frame that is written as CSV.                    *)
(***************************************************************************)
\* x.replace('/', '')
RemoveSlashes(s) ==
    LET keep == { i \in 1..Len(s) : CharAt(s, i) # "/" }
        F[i \in 0..Len(s)] ==
            IF i = 0 THEN ""
            ELSE IF i \in keep THEN F[i - 1] \o CharAt(s, i) ELSE F[i - 1]
    IN  F[Len(s)]

\* lambda x: f"'{x}" if x and x.isdigit() else x
escape_order_no(x) == IF x # "" /\ IsDigit(x) THEN "'" \o x ELSE x

\* lambda x: f"'{x}" if x and '/' in x and x.replace('/', '').isdigit() else x
escape_random_check(x) ==
    IF x # "" /\ Contains(x, "/") /\ IsDigit(RemoveSlashes(x)) THEN "'" \o x ELSE x

\* df_download after the two apply steps. Both columns hold str objects when the page
\* calls this: each was forced with astype(str) by the function that built its table.
get_download_link(df) ==
    LET escaped(row, c) ==
            IF c = "Order No" THEN Cell(escape_order_no(PyStr(row[c])))
            ELSE IF c = RandomCheck THEN Cell(escape_random_check(PyStr(row[c])))
            ELSE row[c]
    IN  [columns |-> df.columns,
         rows    |-> [i \in 1..Len(df.rows) |->
                        [c \in DOMAIN df.rows[i] |-> escaped(df.rows[i], c)]]]

(***************************************************************************)
(* The page: process_pdfs over the uploaded files, then the column order   *)
(* and map_to_target_format.                                               *)
(***************************************************************************)
\* df_source[existing_columns]
columns_order ==
    <<SourceFile, "customer_name">>
      \o SelectSeq(required_fields, LAMBDA c : c # "customer_name")

Reorder(df) ==
    LET existing_columns == SelectSeq(columns_order, LAMBDA c : c \in ColumnSet(df))
        keep == {existing_columns[i] : i \in 1..Len(existing_columns)}
    IN  [columns |-> existing_columns,
         rows    |-> [i \in 1..Len(df.rows) |-> [c \in keep |-> df.rows[i][c]]]]

NoFrame == [columns |-> <<>>, rows |-> <<>>]

\* the most uploaded files of one run
MaxFiles == 2

VARIABLES
    pdf_files,   \* the uploaded files the loop of process_pdfs has taken so far
    pc,          \* where the run stands
    tmp_files,   \* the temporary files that exist: the numbers of their documents
    all_data,    \* process_pdfs' list of records
    calls,       \* for each record: which extractor ran, the blocks it began, whether it raised
    df_source,   \* the first table
    df_target,   \* the second table
    source_row,  \* DataMapper on its own: a row handed to process_single_row
    mapped_row,  \*   and the row it returned
    extracted,   \* what extract_data_from_pdf returns for each document of the model:
                 \* a function of the document alone, worked out once and kept
    download_source,  \* df_download of get_download_link for the first table
    download_target,  \*   and for the second
    conversion   \* convert_date_format on its own: the string and format it was
                 \* called with and what it returned, call after call on its result

vars == <<pdf_files, pc, tmp_files, all_data, calls, df_source, df_target,
          source_row, mapped_row, extracted, download_source, download_target,
          conversion>>


NoConversion == [date_str |-> "", source_format |-> "mdy", returned |-> <<>>]
EmptyTargetRow == [col \in TargetColumns |-> ""]
SeedRow == [f \in RequiredFields |-> Cell(NotExtracted)]

Init ==
    /\ pdf_files = <<>>
    /\ pc = "loop"
    /\ tmp_files = {}
    /\ all_data = <<>>
    /\ calls = <<>>
    /\ df_source = NoFrame
    /\ df_target = NoFrame
    /\ source_row = SeedRow
    /\ mapped_row = EmptyTargetRow
    /\ extracted = ExtractionOf
    /\ download_source = NoFrame
    /\ download_target = NoFrame
    /\ conversion = NoConversion

\* with tempfile.NamedTemporaryFile(delete=False) as tmp_file: the file is created,
\* the bytes are written, and the file is closed and kept. A failing write leaves
\* the with block with the exception, which process_pdfs does not catch.
CreateTempFile(doc) ==
    /\ pc = "loop"
    /\ Len(pdf_files) < MaxFiles
    /\ pdf_files' = Append(pdf_files, doc)
    /\ tmp_files' = tmp_files \cup {Len(pdf_files) + 1}
    /\ pc' = IF doc.writable THEN "try" ELSE "raised"
    /\ UNCHANGED <<all_data, calls, df_source, df_target, source_row, mapped_row, extracted,
                   download_source, download_target, conversion>>

\* the try block: extract_data_from_pdf, the Source File tag, the append
ExtractData ==
    /\ pc = "try"
    /\ LET pdf_file == pdf_files[Len(pdf_files)]
           got      == extracted[pdf_file]
       IN  /\ all_data' = Append(all_data, got.data @@ (SourceFile :> pdf_file.name))
           /\ calls' = Append(calls, [extractor |-> got.extractor,
                                      attempted |-> got.attempted,
                                      raised |-> got.raised])
    /\ pc' = "finally"
    /\ UNCHANGED <<pdf_files, tmp_files, df_source, df_target, source_row, mapped_row, extracted,
                   download_source, download_target, conversion>>

\* finally: os.unlink(tmp_path)
UnlinkTempFile ==
    /\ pc = "finally"
    /\ tmp_files' = tmp_files \ {Len(pdf_files)}
    /\ pc' = "loop"
    /\ UNCHANGED <<pdf_files, all_data, calls, df_source, df_target, source_row, mapped_row, extracted,
                   download_source, download_target, conversion>>

\* the list is exhausted: the frame is built, Order No forced to str, and returned
ReturnFrame ==
    /\ pc = "loop"
    /\ df_source' = AsTypeStr(DataFrame(all_data, SourceColumns), "Order No")
    /\ pc' = "returned"
    /\ UNCHANGED <<pdf_files, tmp_files, all_data, calls, df_target, source_row, mapped_row, extracted,
                   download_source, download_target, conversion>>

\* the page reorders the columns of the first table and maps it to the second
MapToTarget ==
    /\ pc = "returned"
    /\ df_source' = Reorder(df_source)
    /\ df_target' = map_to_target_format(Reorder(df_source))
    /\ pc' = "mapped"
    /\ UNCHANGED <<pdf_files, tmp_files, all_data, calls, source_row, mapped_row, extracted,
                   download_source, download_target, conversion>>

\* the page offers both tables for download; the tables themselves are left alone,
\* get_download_link works on a copy
DownloadLinks ==
    /\ pc = "mapped"
    /\ download_source' = get_download_link(df_source)
    /\ download_target' = get_download_link(df_target)
    /\ pc' = "linked"
    /\ UNCHANGED <<pdf_files, tmp_files, all_data, calls, df_source, df_target,
                   source_row, mapped_row, extracted, conversion>>

Next ==
    \/ \E doc \in DocPool : CreateTempFile(doc)
    \/ ExtractData
    \/ UnlinkTempFile
    \/ ReturnFrame
    \/ MapToTarget
    \/ DownloadLinks

Spec == Init /\ [][Next]_vars

(***************************************************************************)
(* DataMapper on its own: process_single_row on rows of any content.       *)
(***************************************************************************)
SampleCells ==
    { Cell(""), Cell("  "), Cell(NotExtracted), Cell(FailedToExtract),
      Cell(" see: Not extracted yet"), Cell("5"), Cell(" 80\n"), Cell("Q"),
      Cell("QD45 (Q)"), Cell("q"), Cell("Free goods"), NaN }

\* rows with chosen Decision, Faulty pcs and Random quantity, the other columns alike,
\* and possibly a column missing
SampleRows ==
    { [f \in RequiredFields \ gone |->
          CASE f = "Decision" -> d
            [] f = "Faulty pcs" -> fp
            [] f = "Random quantity" -> rq
            [] OTHER -> Cell(rest)] :
      d \in SampleCells, fp \in SampleCells, rq \in SampleCells,
      rest \in {NotExtracted, " Acme  Ltd "},
      gone \in {{}, {"Decision"}, {"Faulty pcs", "Supplier Name"}} }

InitMap ==
    /\ pdf_files = <<>>
    /\ pc = "mapper"
    /\ tmp_files = {}
    /\ all_data = <<>>
    /\ calls = <<>>
    /\ df_source = NoFrame
    /\ df_target = NoFrame
    /\ source_row \in SampleRows
    /\ mapped_row = EmptyTargetRow
    /\ extracted = <<>>
    /\ download_source = NoFrame
    /\ download_target = NoFrame
    /\ conversion = NoConversion

MapRow ==
    /\ pc = "mapper"
    /\ mapped_row' = process_single_row(source_row)
    /\ pc' = "row mapped"
    /\ UNCHANGED <<pdf_files, tmp_files, all_data, calls, df_source, df_target,
                   source_row, extracted,
                   download_source, download_target, conversion>>

NextMap == MapRow

SpecMap == InitMap /\ [][NextMap]_vars

(***************************************************************************)
(* convert_date_format on its own: dates of every shape, each format.      *)
(***************************************************************************)
\* the most calls in a row
MaxCalls == 2

SampleDates ==
    { pre \o m \o "/" \o d \o "/" \o y \o post :
        m \in {"1", "12"}, d \in {"2", "25"},
        y \in {"24", "2024", "4", "", "24/1"},
        pre \in {"", " "}, post \in {"", "\n"} }
    \cup {NotExtracted, "", "  ", " Not extracted ", "12-25-2024", "12/25", " 12/25 ",
          "/", "//", "1/2/ 24", "1/2/20 24", "Dec 25, 2024", "/2/2024", "1//24"}

InitDate ==
    /\ pdf_files = <<>>
    /\ pc = "date"
    /\ tmp_files = {}
    /\ all_data = <<>>
    /\ calls = <<>>
    /\ df_source = NoFrame
    /\ df_target = NoFrame
    /\ source_row = SeedRow
    /\ mapped_row = EmptyTargetRow
    /\ extracted = <<>>
    /\ download_source = NoFrame
    /\ download_target = NoFrame
    /\ \E d \in SampleDates : \E f \in {"mdy", "dmy"} :
          conversion = [date_str |-> d, source_format |-> f, returned |-> <<>>]

\* one call, on the string itself or on what the call before returned
ConvertDate ==
    /\ pc = "date"
    /\ Len(conversion.returned) < MaxCalls
    /\ LET arg == IF conversion.returned = <<>> THEN conversion.date_str
                  ELSE conversion.returned[Len(conversion.returned)]
       IN  conversion' = [conversion EXCEPT !.returned =
                             Append(@, convert_date_format(arg, conversion.source_format))]
    /\ UNCHANGED <<pdf_files, pc, tmp_files, all_data, calls, df_source, df_target,
                   source_row, mapped_row, extracted,
                   download_source, download_target>>

NextDate == ConvertDate

SpecDate == InitDate /\ [][NextDate]_vars

(***************************************************************************)
(* Properties of the pipeline.                                             *)
(***************************************************************************)
\* the document the loop has just processed, its record and its extractor call
LastDoc == pdf_files[Len(pdf_files)]
LastRecord == all_data[Len(all_data)]
LastCall == calls[Len(calls)]
LastText == extract_text_from_pdf(LastDoc.pdf)
Sentinels == {NotExtracted, FailedToExtract, Unknown}

\* C1: every record extract_data_from_pdf returns, whichever path produced it (the BPH
\* extractor, the OVH extractor, a failed text extraction, an extractor that raised
\* part-way), has all 13 required fields, each holding a string: none is missing.
C1_EveryFieldPresent ==
    pc = "finally" =>
        /\ Len(required_fields) = 13
        /\ Cardinality(RequiredFields) = 13
        /\ RequiredFields \subseteq DOMAIN LastRecord
        /\ \A f \in RequiredFields : LastRecord[f] \in STRING
        /\ LastCall.extractor = "none" =>
              \A f \in RequiredFields : LastRecord[f] \in Sentinels

\* a run that has seen an extractor raise and a text extraction fail
C1_Witness ==
    /\ pc = "finally"
    /\ LastCall.raised
    /\ \E i \in 1..Len(calls) : calls[i].extractor = "none"

\* C2: a document whose text extraction fails yields a record with every field
\* "Failed to extract text" and customer_name "Unknown", and its row of the second
\* table is empty in every column except Claim Status = "Failure" and
\* Claim Type = "Claim": no sentinel text reaches the second table.
C2_FailedDocumentMapsToBlankRow ==
    pc = "mapped" =>
        \A i \in 1..Len(calls) :
            calls[i].extractor = "none" =>
                /\ \A f \in RequiredFields :
                      all_data[i][f] = IF f = "customer_name" THEN Unknown
                                       ELSE FailedToExtract
                /\ \A col \in TargetColumns :
                      PyStr(df_target.rows[i][col]) =
                          CASE col = "Claim Status" -> "Failure"
                            [] col = "Claim Type"   -> "Claim"
                            [] OTHER                -> ""

\* the sanitized value of a column as the specification defines it: "" when the
\* column is absent, when the raw value contains "Not extracted", when it is null,
\* empty or only whitespace; otherwise the raw value without the whitespace around it
IsTrimOf(r, raw) ==
    \E i \in 1..(Len(raw) + 1) : \E j \in 0..Len(raw) :
        /\ r = SubSeq(raw, i, j)
        /\ \A h \in 1..(i - 1) : CharAt(raw, h) \in Whitespace
        /\ \A h \in (j + 1)..Len(raw) : CharAt(raw, h) \in Whitespace
        /\ r # "" => CharAt(r, 1) \notin Whitespace /\ CharAt(r, Len(r)) \notin Whitespace

Blank(raw) == \A h \in 1..Len(raw) : CharAt(raw, h) \in Whitespace

IsSanitized(r, row, column) ==
    IF column \notin DOMAIN row THEN r = ""
    ELSE IF Contains(row[column].s, NotExtracted) THEN r = ""
    ELSE IF row[column].na \/ Blank(row[column].s) THEN r = ""
    ELSE r # "" /\ IsTrimOf(r, row[column].s)

Sanitized(row, column) ==
    IF column \notin DOMAIN row THEN ""
    ELSE CHOOSE r \in {""} \cup { SubSeq(row[column].s, i, j) :
                                    i \in 1..Len(row[column].s), j \in 1..Len(row[column].s) } :
             IsSanitized(r, row, column)

\* C3: Claim Type follows from the sanitized Decision: empty gives "Claim", a value
\* containing "Not extracted" gives "", exactly "QD45 (Q)" or "Q" gives "Complaint",
\* anything else "Claim"; in particular a row whose Decision is "Not extracted" gets
\* Claim Type "".
C3_ClaimTypeRule ==
    pc = "row mapped" =>
        /\ mapped_row["Claim Type"] =
              LET d == Sanitized(source_row, "Decision")
              IN  IF d = "" THEN "Claim"
                  ELSE IF Contains(d, NotExtracted) THEN ""
                  ELSE IF d \in {"QD45 (Q)", "Q"} THEN "Complaint"
                  ELSE "Claim"
        /\ ("Decision" \in DOMAIN source_row /\ source_row["Decision"] = Cell(NotExtracted))
              => mapped_row["Claim Type"] = ""

\* the rule list alone, as get_claim_type applies it
C3_RuleList ==
    pc = "row mapped" =>
        mapped_row["Claim Type"] =
            LET d == Sanitized(source_row, "Decision")
            IN  IF d = "" THEN "Claim"
                ELSE IF d \in {"QD45 (Q)", "Q"} THEN "Complaint"
                ELSE "Claim"

\* the columns of the second table that no source field feeds
UnmappedColumns ==
    {"Picture", "Production Type", "Inspection Date", "FID", "TEAM", "QC Trip Leader",
     "Quality Digit (Market)", "Defect Code", "QC Responsibility", "Validate Month",
     "Claim shipped Qty", "Re-check in warehouse"}

\* C4: whatever the source row contains, its row of the second table has exactly the
\* 25 target columns, and the columns no mapping rule covers (Picture, Production
\* Type, Inspection Date, FID, TEAM, QC Trip Leader, Quality Digit (Market), Defect
\* Code, QC Responsibility, Validate Month, Claim shipped Qty, Re-check in warehouse)
\* are the empty string.
C4_TargetRowShape ==
    pc = "row mapped" =>
        /\ Len(target_columns) = 25
        /\ Cardinality(TargetColumns) = 25
        /\ DOMAIN mapped_row = TargetColumns
        /\ Cardinality(UnmappedColumns) = 12
        /\ \A col \in UnmappedColumns : col \in DOMAIN mapped_row /\ mapped_row[col] = ""

\* a mapped row that carries source values while a source column was missing
C4_Witness ==
    /\ pc = "row mapped"
    /\ "Supplier Name" \notin DOMAIN source_row
    /\ mapped_row["Relevant shipped Qty"] = "Acme  Ltd"
    /\ mapped_row["Claim Status"] = "Failure"

\* the number of documents the loop has finished with
Handled == IF pc \in {"try", "raised"} THEN Len(pdf_files) - 1 ELSE Len(pdf_files)

\* C5: for any batch, failed text extractions and raising extractors included, the
\* first table has exactly one row per input document, in input order, each carrying
\* its document's file name, and the second table has exactly one row per row of the
\* first, in the same order: no failure on one document drops or moves another's row.
C5_OneRowPerDocument ==
    /\ Len(all_data) = Handled
    /\ \A i \in 1..Len(all_data) : all_data[i][SourceFile] = pdf_files[i].name
    /\ pc \in {"returned", "mapped"} =>
          /\ Len(df_source.rows) = Len(pdf_files)
          /\ \A i \in 1..Len(pdf_files) :
                /\ df_source.rows[i][SourceFile] = Cell(pdf_files[i].name)
                /\ \A f \in RequiredFields : df_source.rows[i][f] = Cell(all_data[i][f])
    /\ pc = "mapped" =>
          /\ Len(df_target.rows) = Len(df_source.rows)
          /\ \A i \in 1..Len(df_source.rows) :
                /\ DOMAIN df_target.rows[i] = TargetColumns
                /\ \A col \in TargetColumns :
                      df_target.rows[i][col] =
                          Cell(process_single_row(df_source.rows[i])[col])

\* a mapped batch of two whose first document failed and whose second was extracted
C5_Witness ==
    /\ pc = "mapped"
    /\ Len(pdf_files) = 2
    /\ calls[1].extractor = "none"
    /\ calls[2].extractor = "BPH" /\ ~calls[2].raised
    /\ df_target.rows[2]["Claim No."] = Cell("123456")
    /\ df_target.rows[1]["Claim No."] # df_target.rows[2]["Claim No."]

\* the extractor family the classification rules name for a file name and a text
ExpectedFamily(filename, text) ==
    IF StartsWith(Upper(filename), "RDR") THEN "BPH"
    ELSE IF StartsWith(Upper(filename), "CR") THEN "OVH"
    ELSE IF Contains(text, "Reclamation") /\ Contains(text, "Reclamation ID") THEN "BPH"
    ELSE IF Contains(text, "OTTO") /\ Contains(text, "Control") THEN "OVH"
    ELSE "BPH"

\* C6: when text extraction succeeds exactly one extractor runs, chosen in this order:
\* a file name starting with RDR (any case) gives BPH, else one starting with CR (any
\* case) gives OVH, else a text containing both "Reclamation" and "Reclamation ID"
\* gives BPH, else a text containing both "OTTO" and "Control" gives OVH, else BPH;
\* no successfully read document goes without an extractor.
C6_Classification ==
    pc = "finally" =>
        IF LastText = FailedToExtract
        THEN LastCall.extractor = "none"
        ELSE /\ LastCall.extractor \in {"BPH", "OVH"}
             /\ LastCall.extractor = ExpectedFamily(LastDoc.name, LastText)
             /\ LastRecord["customer_name"] = LastCall.extractor

\* a CR-named file with Reclamation content went to OVH after a file classified by content
C6_Witness ==
    /\ pc = "finally"
    /\ Len(pdf_files) = 2
    /\ StartsWith(Upper(LastDoc.name), "CR")
    /\ Contains(LastText, "Reclamation ID")
    /\ LastCall.extractor = "OVH"
    /\ ~StartsWith(Upper(pdf_files[1].name), "RDR")
    /\ ~StartsWith(Upper(pdf_files[1].name), "CR")
    /\ calls[1].extractor = "OVH"

\* the blocks of an extractor family
StepsOf(family) == IF family = "BPH" THEN 1..BphSteps ELSE 1..OvhSteps

\* C7: inside an extractor each field is extracted on its own: when one field's block
\* raises, the extractor still attempts every later field, so that a later field the
\* text holds is extracted and only the failing field keeps its sentinel.
C7_LaterFieldsStillAttempted ==
    pc = "finally" =>
        (LastCall.extractor \in {"BPH", "OVH"} =>
            LastCall.attempted = StepsOf(LastCall.extractor))

\* C8: the temporary file a document is written to is removed whether or not the
\* document's extraction succeeds: once the batch is over, by return or by an
\* exception, no temporary file is left, and while a document is being processed the
\* only temporary file is its own.
C8_TempFileRemoved ==
    /\ pc \in {"loop", "returned", "mapped", "raised"} => tmp_files = {}
    /\ pc \in {"try", "finally"} => tmp_files = {Len(pdf_files)}

\* C9: Random check is "<Faulty pcs>/<Random quantity>" exactly when both sanitized
\* values are non-empty and neither is "Not extracted"; otherwise it is "".
C9_RandomCheck ==
    pc = "row mapped" =>
        mapped_row[RandomCheck] =
            LET faulty == Sanitized(source_row, "Faulty pcs")
                random == Sanitized(source_row, "Random quantity")
            IN  IF faulty # "" /\ random # "" /\ faulty # NotExtracted /\ random # NotExtracted
                THEN faulty \o "/" \o random
                ELSE ""

\* a combined value built from padded cells
C9_Witness ==
    /\ pc = "row mapped"
    /\ DOMAIN source_row = RequiredFields
    /\ source_row["Faulty pcs"] = Cell("5")
    /\ source_row["Random quantity"] = Cell(" 80\n")
    /\ mapped_row[RandomCheck] = "5/80"

\* C10: the sanitizer returns "" when the column is absent from the row, when the raw
\* value contains "Not extracted", and when the raw value is null, empty or only
\* whitespace; otherwise it returns the raw value without the whitespace around it.
C10_Sanitizer ==
    /\ \A column \in RequiredFields \cup {"Comment"} :
          IsSanitized(safe_extract_value(source_row, column), source_row, column)
    /\ pc = "row mapped" =>
          \A column \in MappedTargets :
              IsSanitized(mapped_row[column], source_row,
                          field_mappings[SourceOf(column)][2])

\* a mapped row with an absent column, a null cell and a padded value
C10_Witness ==
    /\ pc = "row mapped"
    /\ "Faulty pcs" \notin DOMAIN source_row
    /\ source_row["Decision"] = NaN
    /\ source_row["Claim no"] = Cell(" Acme  Ltd ")
    /\ mapped_row["Claim No."] = "Acme  Ltd"
    /\ mapped_row["Vendor"] = ""

\* C11: a batch of no documents gives, without an error, two empty tables with their
\* column headers: the first has the 13 field columns and Source File and no row, the
\* second has the 25 target columns and no row.
C11_EmptyBatchKeepsHeaders ==
    (pdf_files = <<>> /\ pc \in {"returned", "mapped"}) =>
        /\ df_source.rows = <<>>
        /\ ColumnSet(df_source) = RequiredFields \cup {SourceFile}
        /\ pc = "mapped" =>
              /\ df_target.rows = <<>>
              /\ df_target.columns = target_columns

\* the part of it that holds: the second table of an empty batch has the 25 headers
C11_EmptyTargetHasHeaders ==
    (pdf_files = <<>> /\ pc = "mapped") =>
        /\ df_source.rows = <<>>
        /\ df_target.rows = <<>>
        /\ df_target.columns = target_columns

\* C12: an order number extracted as a string of digits, leading zeros included,
\* reaches both tables unchanged: Order No of the first table, after the column is
\* forced to str, and Order No. of the second equal it character for character.
C12_OrderNoKeepsLeadingZeros ==
    pc \in {"returned", "mapped"} =>
        \A i \in 1..Len(all_data) :
            IsDigit(all_data[i]["Order No"]) =>
                /\ ~df_source.rows[i]["Order No"].na
                /\ df_source.rows[i]["Order No"].s = all_data[i]["Order No"]
                /\ pc = "mapped" =>
                      /\ ~df_target.rows[i]["Order No."].na
                      /\ df_target.rows[i]["Order No."].s = all_data[i]["Order No"]

\* a BPH and an OVH order number with leading zeros in the second table
C12_Witness ==
    /\ pc = "mapped"
    /\ Len(all_data) = 2
    /\ all_data[1]["Order No"] = "007123" /\ calls[1].extractor = "BPH"
    /\ all_data[2]["Order No"] = "004567" /\ calls[2].extractor = "OVH"
    /\ df_target.rows[1]["Order No."] = Cell("007123")
    /\ df_target.rows[2]["Order No."] = Cell("004567")

\* the shapes that call for the text-forcing marker
PurelyNumeric(x) == Len(x) > 0 /\ \A i \in 1..Len(x) : CharAt(x, i) \in Digits
SlashedDigits(x) ==
    /\ \E i \in 1..Len(x) : CharAt(x, i) = "/"
    /\ \E i \in 1..Len(x) : CharAt(x, i) \in Digits
    /\ \A i \in 1..Len(x) : CharAt(x, i) \in Digits \cup {"/"}

\* a table as written for download, against the table it was made from: the
\* order-number column order_col and the random-check column carry the marker where
\* the shape calls for it, and everything else is as it was
Emitted(out, df, order_col) ==
    /\ out.columns = df.columns
    /\ Len(out.rows) = Len(df.rows)
    /\ \A i \in 1..Len(df.rows) :
          /\ DOMAIN out.rows[i] = DOMAIN df.rows[i]
          /\ \A c \in DOMAIN df.rows[i] :
                out.rows[i][c] =
                    IF c = order_col /\ PurelyNumeric(df.rows[i][c].s)
                    THEN Cell("'" \o df.rows[i][c].s)
                    ELSE IF c = RandomCheck /\ SlashedDigits(df.rows[i][c].s)
                    THEN Cell("'" \o df.rows[i][c].s)
                    ELSE df.rows[i][c]

\* C13: when either table is written by get_download_link, every purely numeric value
\* of its order-number column (Order No in the first table, Order No. in the second)
\* and every value of the random-check column made of digits and a slash gets a
\* leading single quote, every other value is written unchanged, and the table passed
\* in is not modified.
C13_DownloadEscapes ==
    pc = "linked" =>
        /\ Emitted(download_source, df_source, "Order No")
        /\ Emitted(download_target, df_target, "Order No.")
        /\ df_source = Reorder(AsTypeStr(DataFrame(all_data, SourceColumns), "Order No"))
        /\ df_target = map_to_target_format(df_source)

\* what get_download_link does: the column named Order No is marked, which the second
\* table does not have, so that its Order No. column is written as it is
C13_MarksOrderNoOfFirstTableOnly ==
    pc = "linked" =>
        /\ Emitted(download_source, df_source, "Order No")
        /\ Emitted(download_target, df_target, "Order No")
        /\ \A i \in 1..Len(df_target.rows) :
              download_target.rows[i]["Order No."] = df_target.rows[i]["Order No."]

\* a month/day/2-digit-year date: digits, a slash, digits, a slash, two digits
IsNormalizedDate(d) ==
    \E i \in 2..Len(d) : \E j \in (i + 2)..Len(d) :
        /\ CharAt(d, i) = "/" /\ CharAt(d, j) = "/"
        /\ Len(d) = j + 2
        /\ \A h \in 1..Len(d) : h \notin {i, j} => CharAt(d, h) \in Digits

\* C14: convert_date_format with the format mdy is idempotent: converting its own
\* result gives the result again, for slash dates with years of any length, malformed
\* strings, the "Not extracted" sentinel, the empty string and padded strings; and a
\* month/day/2-digit-year date is returned unchanged.
C14_MdyIdempotent ==
    conversion.source_format = "mdy" =>
        /\ \A k \in 2..Len(conversion.returned) :
              conversion.returned[k] = conversion.returned[1]
        /\ (Len(conversion.returned) >= 1 /\ IsNormalizedDate(conversion.date_str))
              => conversion.returned[1] = conversion.date_str

\* a padded date with a four-digit year, shortened by the first call and kept by the second
C14_Witness ==
    /\ conversion.source_format = "mdy"
    /\ conversion.date_str = " 12/25/2024\n"
    /\ conversion.returned = <<"12/25/24", "12/25/24">>

\* C15: in the BPH extractor, when the text has the style and item numbers only in the
\* combined form "Style No Item No N1 N2", with no "Style No <digits>" of its own, the
\* record has Style No = N1 and Item No = N2.
C15_CombinedFormSplits ==
    pc = "finally" =>
        LET labelled == re_search(bph_style_pat1, LastText, TRUE)
            combined == re_search(bph_style_pat2, LastText, TRUE)
        IN  (LastCall.extractor = "BPH" /\ ~LastCall.raised /\ ~labelled.ok /\ combined.ok)
                => /\ LastRecord["Style No"] = Group(LastText, combined, 1)
                   /\ LastRecord["Item No"] = Group(LastText, combined, 2)

\* what the extractor does with the combined form: Style No is N1, and Item No is N2
\* only when "Item No" is not directly followed by N1, else it is N1 as well
C15_ItemLabelWins ==
    pc = "finally" =>
        LET labelled == re_search(bph_style_pat1, LastText, TRUE)
            combined == re_search(bph_style_pat2, LastText, TRUE)
            item     == re_search(bph_item_pat, LastText, TRUE)
        IN  (LastCall.extractor = "BPH" /\ ~LastCall.raised /\ ~labelled.ok /\ combined.ok)
                => /\ LastRecord["Style No"] = Group(LastText, combined, 1)
                   /\ LastRecord["Item No"] =
                         IF item.ok THEN Group(LastText, item, 1)
                         ELSE Group(LastText, combined, 2)

\* the tiers of the decision date as the specification describes them: the first
\* date token of the line that follows the three-column header, the date after the
\* label "Date of decision", the first date token of the line that follows the line
\* of a "Decided by" marker; "" when the tier yields none
FirstDateToken(line) ==
    LET m == re_search(DateToken(1), line, FALSE)
    IN  IF m.ok THEN Group(line, m, 1) ELSE ""

LineFrom(text, pos) ==
    LET stop == CHOOSE j \in pos..(Len(text) + 1) :
                    /\ (j = Len(text) + 1 \/ CharAt(text, j) = "\n")
                    /\ \A h \in pos..(j - 1) : CharAt(text, h) # "\n"
    IN  SubSeq(text, pos, stop - 1)

HeaderTierDate(text) ==
    LET header == re_search(bph_decision_table_pat, text, TRUE)
        line   == re_search(Plus("^n"), SubSeq(text, header.end, Len(text)), FALSE)
    IN  IF header.ok /\ line.ok
        THEN FirstDateToken(Group0(SubSeq(text, header.end, Len(text)), line))
        ELSE ""

LabelTierDate(text) ==
    LET m == re_search(bph_date_decision_pat, text, TRUE)
    IN  IF m.ok THEN Group(text, m, 1) ELSE ""

MarkerTierDate(text) ==
    LET marker == re_search(bph_decided_by_pat, text, TRUE)
    IN  IF marker.ok /\ marker.end <= Len(text)
        THEN FirstDateToken(LineFrom(text, marker.end + 1))
        ELSE ""

\* C16: the BPH decision date comes from three tiers in order: the labelled date is
\* tried only when the line after the header gave none, the line after a "Decided by"
\* marker only when both gave none; the stored date is the mdy-normalized date of the
\* first tier that yields one, a header without a date on the next line does not stop
\* the later tiers, and the field stays "Not extracted" when no tier yields a date.
C16_DateTiers ==
    pc = "finally" =>
        ((LastCall.extractor = "BPH" /\ ~LastCall.raised) =>
            LastRecord["Date of decision"] =
                LET a == HeaderTierDate(LastText)
                    b == LabelTierDate(LastText)
                    c == MarkerTierDate(LastText)
                IN  IF a # "" THEN convert_date_format(a, "mdy")
                    ELSE IF b # "" THEN convert_date_format(b, "mdy")
                    ELSE IF c # "" THEN convert_date_format(c, "mdy")
                    ELSE NotExtracted)

\* what the extractor does: the first two tiers in order; the third reads the (empty)
\* rest of the marker's own line and never yields a date
C16_FirstTwoTiers ==
    pc = "finally" =>
        ((LastCall.extractor = "BPH" /\ ~LastCall.raised) =>
            LastRecord["Date of decision"] =
                LET a == HeaderTierDate(LastText)
                    b == LabelTierDate(LastText)
                IN  IF a # "" THEN convert_date_format(a, "mdy")
                    ELSE IF b # "" THEN convert_date_format(b, "mdy")
                    ELSE NotExtracted)

\* C17: in every row of the first table customer_name is "Unknown" exactly when the
\* document's text extraction failed; otherwise it is the family of the extractor that
\* ran, BPH or OVH, also when that extractor raised and in the default case: a file
\* with an unrecognised name and no content marker is tagged BPH, and an RDR file name
\* is tagged BPH whatever markers its text holds.
C17_CustomerTag ==
    pc \in {"returned", "mapped"} =>
        \A i \in 1..Len(df_source.rows) :
            LET tag    == df_source.rows[i]["customer_name"]
                name   == Upper(pdf_files[i].name)
                text   == extract_text_from_pdf(pdf_files[i].pdf)
                failed == text = FailedToExtract
            IN  /\ ~tag.na
                /\ tag.s = Unknown <=> failed
                /\ ~failed =>
                      /\ tag.s \in {"BPH", "OVH"}
                      /\ tag.s = calls[i].extractor
                      /\ StartsWith(name, "RDR") => tag.s = "BPH"
                      /\ (~StartsWith(name, "RDR") /\ StartsWith(name, "CR")) => tag.s = "OVH"
                      /\ (/\ ~StartsWith(name, "RDR") /\ ~StartsWith(name, "CR")
                          /\ ~Contains(text, "Reclamation ID")
                          /\ ~(Contains(text, "OTTO") /\ Contains(text, "Control")))
                            => tag.s = "BPH"

\* an RDR file with OTTO Control content tagged BPH, beside an OVH extraction that raised
C17_Witness ==
    /\ pc = "mapped"
    /\ Len(pdf_files) = 2
    /\ pdf_files[1].name = "RDR_otto.pdf"
    /\ Contains(extract_text_from_pdf(pdf_files[1].pdf), "OTTO Control")
    /\ df_source.rows[1]["customer_name"] = Cell("BPH")
    /\ calls[2].raised
    /\ df_source.rows[2]["customer_name"] = Cell("OVH")

====
